---------------------------- MODULE Spec2Model ----------------------------
(***************************************************************************)
(* rig: the bounded-execution core.                                        *)
(*                                                                         *)
(*  - one request served by Router.wrap through the Timeout middleware     *)
(*    (the guard), whose inner handler runs on a worker goroutine and      *)
(*    shares the request's *Context with the guard (GuardSpec);            *)
(*  - the Health manager: registration of checks and one evaluation of a   *)
(*    collection by Health.handle / Health.runCheck (HealthSpec).          *)
(*                                                                         *)
(* Every statement of the Go code that touches shared state (the written   *)
(* flag, the ResponseWriter, a channel, a context) is one step, so that    *)
(* every interleaving of the goroutines is a behaviour of the model.       *)
(***************************************************************************)
EXTENDS Integers, Sequences, FiniteSets, TLC

VARIABLES
    \* ---- the request's *Context and its ResponseWriter
    c,                \* [written, code, body, hdrBy]
    \* ---- the guarded request
    pc,               \* position of the "caller" and of the "worker" goroutine
    call,             \* the response call each goroutine is inside
    done,             \* the guard's completion channel (capacity 1)
    ctxErr,           \* Err() of the context the guard installed
    onTimeout,        \* TimeoutConfig.OnTimeout
    ret,              \* what the guard returned to Router.wrap
    ops,              \* response calls the inner handler has made
    onTimeoutCalls,   \* history: invocations of OnTimeout
    errorHandlerCalls,\* history: invocations of the router's error handler
    finishedInTime,   \* history: the handler's outcome, if sent before the deadline
    consulted,        \* history: what the guard saw when it consulted written
    committed         \* history: the response as the fallback left it

VARIABLES
    \* ---- the Health manager
    config,           \* Health.config: [CheckTimeout, Parallel]
    readiness,        \* Health.readiness
    liveness,         \* Health.liveness
    mu,               \* Health.mu: "free", or "read" while a handler holds RLock
    \* ---- one evaluation (the closure Health.handle returns)
    hpc,              \* position of the handler's goroutine
    checksCopy,       \* the snapshot
    status,           \* the HTTP status of the report
    response,         \* the checks map of the report
    results,          \* the fan-in channel of parallel mode
    idx,              \* loop position: checks folded so far (+1 when sequential)
    rpc,              \* per snapshot check: position of its runCheck call
    timer,            \* per snapshot check: ticks left of its timeout, -1 unarmed
    probe,            \* per snapshot check: its probe's goroutine (and, as history,
                      \* whether it finished with its timeout already elapsed)
    dn,               \* per snapshot check: runCheck's done channel (capacity 1)
    res,              \* per snapshot check: the checkResult runCheck returned (kept
                      \* as history once it is sent or folded)
    ambient,          \* the request's own context is cancelled
    crashed,          \* the process died of a panic no one recovered
    cancelCalled      \* per check: runCheck's deferred cancel() has run

gonly == <<pc, call, done, ctxErr, onTimeout, ret, ops, onTimeoutCalls,
           errorHandlerCalls, finishedInTime, consulted, committed>>

hvars == <<config, readiness, liveness, mu, hpc, checksCopy, status, response,
           results, idx, rpc, timer, probe, dn, res, ambient, crashed,
           cancelCalled>>

vars == <<c, gonly, hvars>>

(***************************************************************************)
(* Bounds.                                                                 *)
(***************************************************************************)
MaxHandlerOps == 2

(***************************************************************************)
(* HTTP status codes used by the code.                                     *)
(***************************************************************************)
StatusOK == 200
StatusCreated == 201
StatusNoContent == 204
StatusRequestTimeout == 408
StatusInternalServerError == 500
StatusServiceUnavailable == 503
StatusGatewayTimeout == 504

Procs == {"caller", "worker"}

\* Who is writing: the inner handler runs on the worker; on the caller's
\* goroutine the only Context call of a guarded request is OnTimeout's.
Origin(p) == IF p = "worker" THEN "handler" ELSE "timeout"

(***************************************************************************)
(* http.ResponseWriter, as the Context uses it.  The first WriteHeader     *)
(* fixes the status code, a later one is ignored by net/http; a Write      *)
(* before any WriteHeader sends 200 first.  code = 0: no header sent yet.  *)
(***************************************************************************)
WriteHeaderSkipped(w, code, by) == w

WriteHeader(w, code, by) ==
    IF w.code = 0
    THEN [w EXCEPT !.code = code, !.hdrBy = @ \cup {by}]
    ELSE w

WriterWrite(w, data, by) ==
    [w EXCEPT !.code = IF @ = 0 THEN StatusOK ELSE @,
              !.body = Append(@, [by |-> by, data |-> data])]

newContext == [written |-> FALSE, code |-> 0, body |-> <<>>, hdrBy |-> {}]

\* Context.Written
Written(cc) == cc.written

\* The parties whose status line or body bytes went out.
Writers(cc) == cc.hdrBy \cup {cc.body[i].by : i \in DOMAIN cc.body}

(***************************************************************************)
(* The response calls an inner handler may make, and OnTimeout's.          *)
(***************************************************************************)
NoCall == [op |-> "none", code |-> 0, v |-> "nil"]

HandlerCalls ==
    { [op |-> "JSON", code |-> StatusOK, v |-> "completed"],
      [op |-> "JSON", code |-> StatusNoContent, v |-> "nil"],
      [op |-> "Status", code |-> StatusCreated, v |-> "nil"],
      [op |-> "Write", code |-> 0, v |-> "data"],
      [op |-> "WriteString", code |-> 0, v |-> "text"] }

\* First position inside each Context method.
Entry(op) ==
    CASE op = "JSON" -> "JSON:check"
      [] op = "Status" -> "Status:header"
      [] op = "Write" -> "Write:written"
      [] op = "WriteString" -> "WriteString:written"

\* The default OnTimeout of the guard, and the custom one of the tests.
DefaultOnTimeout == [op |-> "JSON", code |-> StatusGatewayTimeout, v |-> "request timed out"]
CustomOnTimeout == [op |-> "JSON", code |-> StatusRequestTimeout, v |-> "custom timeout"]

OnTimeouts == {"default", "custom", "customErr"}

GuardInit ==
    /\ c = newContext
    /\ pc = [p \in Procs |-> IF p = "caller" THEN "start" ELSE "idle"]
    /\ call = [p \in Procs |-> NoCall]
    /\ done = <<>>
    /\ ctxErr = "none"
    /\ onTimeout \in OnTimeouts
    /\ ret = "unset"
    /\ ops = 0
    /\ onTimeoutCalls = 0
    /\ errorHandlerCalls = 0
    /\ finishedInTime = "no"
    /\ consulted = "none"
    /\ committed = [set |-> FALSE, code |-> 0, body |-> <<>>]

\* defer cancel(): the guard's context is cancelled when the guard returns.
Cancelled(e) == IF e = "none" THEN "canceled" ELSE e

\* A Context method returns: the handler goes on; OnTimeout (and with it the
\* guard) returns the method's result, nil.
Return(p, cc) ==
    IF p = "worker"
    THEN /\ pc' = [pc EXCEPT ![p] = "run"]
         /\ UNCHANGED <<ret, committed, ctxErr>>
    ELSE /\ pc' = [pc EXCEPT ![p] = "wrap"]
         /\ ret' = "nil"
         /\ committed' = [set |-> TRUE, code |-> cc.code, body |-> cc.body]
         /\ ctxErr' = Cancelled(ctxErr)

(***************************************************************************)
(* Context.JSON, statement by statement.                                   *)
(***************************************************************************)
\* A JSON that sends its header whatever the written flag says.
JSONCheckAlways(p) ==
    /\ pc[p] = "JSON:check"
    /\ pc' = [pc EXCEPT ![p] = "JSON:header"]
    /\ UNCHANGED <<hvars, c, call, done, ctxErr, onTimeout, ret, ops, onTimeoutCalls,
                   errorHandlerCalls, finishedInTime, consulted, committed>>

JSONCheck(p) ==
    /\ pc[p] = "JSON:check"
    /\ IF ~c.written
       THEN /\ pc' = [pc EXCEPT ![p] = "JSON:header"]
            /\ UNCHANGED <<ret, committed, ctxErr>>
       ELSE IF call[p].v = "nil"
            THEN Return(p, c)
            ELSE /\ pc' = [pc EXCEPT ![p] = "JSON:encode"]
                 /\ UNCHANGED <<ret, committed, ctxErr>>
    /\ UNCHANGED <<hvars, c, call, done, onTimeout, ops, onTimeoutCalls,
                   errorHandlerCalls, finishedInTime, consulted>>

JSONHeader(p) ==
    /\ pc[p] = "JSON:header"
    /\ c' = WriteHeader(c, call[p].code, Origin(p))
    /\ pc' = [pc EXCEPT ![p] = "JSON:written"]
    /\ UNCHANGED <<hvars, call, done, ctxErr, onTimeout, ret, ops, onTimeoutCalls,
                   errorHandlerCalls, finishedInTime, consulted, committed>>

JSONWritten(p) ==
    /\ pc[p] = "JSON:written"
    /\ c' = [c EXCEPT !.written = TRUE]
    /\ IF call[p].v = "nil"
       THEN Return(p, c')
       ELSE /\ pc' = [pc EXCEPT ![p] = "JSON:encode"]
            /\ UNCHANGED <<ret, committed, ctxErr>>
    /\ UNCHANGED <<hvars, call, done, onTimeout, ops, onTimeoutCalls,
                   errorHandlerCalls, finishedInTime, consulted>>

JSONEncode(p) ==
    /\ pc[p] = "JSON:encode"
    /\ c' = WriterWrite(c, call[p].v, Origin(p))
    /\ Return(p, c')
    /\ UNCHANGED <<hvars, call, done, onTimeout, ops, onTimeoutCalls,
                   errorHandlerCalls, finishedInTime, consulted>>

(***************************************************************************)
(* Context.Status, Context.Write, Context.WriteString.                     *)
(***************************************************************************)
StatusHeader(p) ==
    /\ pc[p] = "Status:header"
    /\ c' = WriteHeader(c, call[p].code, Origin(p))
    /\ pc' = [pc EXCEPT ![p] = "Status:written"]
    /\ UNCHANGED <<hvars, call, done, ctxErr, onTimeout, ret, ops, onTimeoutCalls,
                   errorHandlerCalls, finishedInTime, consulted, committed>>

StatusWritten(p) ==
    /\ pc[p] = "Status:written"
    /\ c' = [c EXCEPT !.written = TRUE]
    /\ Return(p, c')
    /\ UNCHANGED <<hvars, call, done, onTimeout, ops, onTimeoutCalls,
                   errorHandlerCalls, finishedInTime, consulted>>

WriteWritten(p) ==
    /\ pc[p] = "Write:written"
    /\ c' = [c EXCEPT !.written = TRUE]
    /\ pc' = [pc EXCEPT ![p] = "Write:write"]
    /\ UNCHANGED <<hvars, call, done, ctxErr, onTimeout, ret, ops, onTimeoutCalls,
                   errorHandlerCalls, finishedInTime, consulted, committed>>

WriteWrite(p) ==
    /\ pc[p] = "Write:write"
    /\ c' = WriterWrite(c, call[p].v, Origin(p))
    /\ Return(p, c')
    /\ UNCHANGED <<hvars, call, done, onTimeout, ops, onTimeoutCalls,
                   errorHandlerCalls, finishedInTime, consulted>>

WriteStringWritten(p) ==
    /\ pc[p] = "WriteString:written"
    /\ c' = [c EXCEPT !.written = TRUE]
    /\ pc' = [pc EXCEPT ![p] = "WriteString:write"]
    /\ UNCHANGED <<hvars, call, done, ctxErr, onTimeout, ret, ops, onTimeoutCalls,
                   errorHandlerCalls, finishedInTime, consulted, committed>>

WriteStringWrite(p) ==
    /\ pc[p] = "WriteString:write"
    /\ c' = WriterWrite(c, call[p].v, Origin(p))
    /\ Return(p, c')
    /\ UNCHANGED <<hvars, call, done, onTimeout, ops, onTimeoutCalls,
                   errorHandlerCalls, finishedInTime, consulted>>

(***************************************************************************)
(* The inner handler: any sequence of at most MaxHandlerOps response       *)
(* calls, then a return (nil, an error, or the context's error once the    *)
(* context is done) or a panic.  A handler that hangs takes no more steps. *)
(***************************************************************************)
HandlerCall(k) ==
    /\ pc["worker"] = "run"
    /\ ops < MaxHandlerOps
    /\ call' = [call EXCEPT !["worker"] = k]
    /\ pc' = [pc EXCEPT !["worker"] = Entry(k.op)]
    /\ ops' = ops + 1
    /\ UNCHANGED <<hvars, c, done, ctxErr, onTimeout, ret, onTimeoutCalls,
                   errorHandlerCalls, finishedInTime, consulted, committed>>

HandlerOutcomes == {"nil", "handler error"} \cup ({ctxErr} \ {"none"})

\* The worker sends the handler's outcome: done <- next(c).
WorkerSend(e) ==
    /\ done' = Append(done, e)
    /\ pc' = [pc EXCEPT !["worker"] = "returned"]
    /\ finishedInTime' = IF ctxErr = "none" THEN e ELSE "no"
    /\ UNCHANGED <<hvars, c, call, ctxErr, onTimeout, ret, ops, onTimeoutCalls,
                   errorHandlerCalls, consulted, committed>>

HandlerReturn(e) ==
    /\ pc["worker"] = "run"
    /\ e \in HandlerOutcomes
    /\ WorkerSend(e)

\* A worker that dies of the handler's panic without sending.
HandlerPanicLost ==
    /\ pc["worker"] = "run"
    /\ pc' = [pc EXCEPT !["worker"] = "returned"]
    /\ UNCHANGED <<hvars, c, call, done, ctxErr, onTimeout, ret, ops, onTimeoutCalls,
                   errorHandlerCalls, finishedInTime, consulted, committed>>

\* A panic of the handler is recovered on the worker and sent as an error.
HandlerPanic ==
    /\ pc["worker"] = "run"
    /\ WorkerSend("panic recovered")

(***************************************************************************)
(* The context the guard installs: done at the deadline, or as soon as the *)
(* request's own context is cancelled.                                     *)
(***************************************************************************)
DeadlineFires ==
    /\ pc["caller"] # "start"
    /\ ctxErr = "none"
    /\ ctxErr' = "deadline exceeded"
    /\ UNCHANGED <<hvars, c, pc, call, done, onTimeout, ret, ops, onTimeoutCalls,
                   errorHandlerCalls, finishedInTime, consulted, committed>>

AmbientCancel ==
    /\ pc["caller"] # "served"
    /\ ctxErr = "none"
    /\ ctxErr' = "canceled"
    /\ UNCHANGED <<hvars, c, pc, call, done, onTimeout, ret, ops, onTimeoutCalls,
                   errorHandlerCalls, finishedInTime, consulted, committed>>

(***************************************************************************)
(* The guard (Timeout / TimeoutWithConfig).                                *)
(***************************************************************************)
\* Derive the context, install it, make the channel, start the worker.
GuardStart ==
    /\ pc["caller"] = "start"
    /\ pc' = [pc EXCEPT !["caller"] = "select", !["worker"] = "run"]
    /\ UNCHANGED <<hvars, c, call, done, ctxErr, onTimeout, ret, ops, onTimeoutCalls,
                   errorHandlerCalls, finishedInTime, consulted, committed>>

\* select: case err := <-done: return err
GuardSelectDone ==
    /\ pc["caller"] = "select"
    /\ done # <<>>
    /\ ret' = Head(done)
    /\ done' = Tail(done)
    /\ pc' = [pc EXCEPT !["caller"] = "wrap"]
    /\ ctxErr' = Cancelled(ctxErr)
    /\ UNCHANGED <<hvars, c, call, onTimeout, ops, onTimeoutCalls,
                   errorHandlerCalls, finishedInTime, consulted, committed>>

\* A guard that times out by a timer of its own, not by the context it installed.
GuardSelectOwnTimer ==
    /\ pc["caller"] = "select"
    /\ pc' = [pc EXCEPT !["caller"] = "consult"]
    /\ UNCHANGED <<hvars, c, call, done, ctxErr, onTimeout, ret, ops, onTimeoutCalls,
                   errorHandlerCalls, finishedInTime, consulted, committed>>

\* A guard that leaves its select through the deadline only once the worker
\* has sent as well.
GuardSelectAwaitsWorker ==
    /\ pc["caller"] = "select"
    /\ ctxErr # "none"
    /\ done # <<>>
    /\ pc' = [pc EXCEPT !["caller"] = "consult"]
    /\ UNCHANGED <<hvars, c, call, done, ctxErr, onTimeout, ret, ops, onTimeoutCalls,
                   errorHandlerCalls, finishedInTime, consulted, committed>>

\* select: case <-ctx.Done()
GuardSelectTimeout ==
    /\ pc["caller"] = "select"
    /\ ctxErr # "none"
    /\ pc' = [pc EXCEPT !["caller"] = "consult"]
    /\ UNCHANGED <<hvars, c, call, done, ctxErr, onTimeout, ret, ops, onTimeoutCalls,
                   errorHandlerCalls, finishedInTime, consulted, committed>>

\* Timed out: consult written; written: return ctx.Err(); else OnTimeout(c).
GuardConsult ==
    /\ pc["caller"] = "consult"
    /\ IF Written(c)
       THEN /\ consulted' = "written"
            /\ ret' = ctxErr
            /\ pc' = [pc EXCEPT !["caller"] = "wrap"]
            /\ UNCHANGED <<call, onTimeoutCalls>>
       ELSE /\ consulted' = "unwritten"
            /\ onTimeoutCalls' = onTimeoutCalls + 1
            /\ IF onTimeout = "customErr"
               THEN /\ ret' = "onTimeout error"
                    /\ pc' = [pc EXCEPT !["caller"] = "wrap"]
                    /\ UNCHANGED call
               ELSE /\ call' = [call EXCEPT !["caller"] =
                           IF onTimeout = "default" THEN DefaultOnTimeout
                                                    ELSE CustomOnTimeout]
                    /\ pc' = [pc EXCEPT !["caller"] = "JSON:check"]
                    /\ UNCHANGED ret
    /\ UNCHANGED <<hvars, c, done, ctxErr, onTimeout, ops, errorHandlerCalls,
                   finishedInTime, committed>>

(***************************************************************************)
(* Router.wrap after handler(ctx) returned, and DefaultErrorHandler.       *)
(***************************************************************************)
\* A router that drops the handler's error.
RouterWrapDropsError ==
    /\ pc["caller"] = "wrap"
    /\ pc' = [pc EXCEPT !["caller"] = "served"]
    /\ UNCHANGED <<hvars, c, call, done, ctxErr, onTimeout, ret, ops, onTimeoutCalls,
                   errorHandlerCalls, finishedInTime, consulted, committed>>

RouterWrapAlways ==
    /\ pc["caller"] = "wrap"
    /\ IF ret # "nil"
       THEN /\ errorHandlerCalls' = errorHandlerCalls + 1
            /\ pc' = [pc EXCEPT !["caller"] = "errorHandler:header"]
       ELSE /\ pc' = [pc EXCEPT !["caller"] = "served"]
            /\ UNCHANGED errorHandlerCalls
    /\ UNCHANGED <<hvars, c, call, done, ctxErr, onTimeout, ret, ops, onTimeoutCalls,
                   finishedInTime, consulted, committed>>

RouterWrap ==
    /\ pc["caller"] = "wrap"
    /\ IF ret # "nil" /\ ~Written(c)
       THEN /\ errorHandlerCalls' = errorHandlerCalls + 1
            /\ pc' = [pc EXCEPT !["caller"] = "errorHandler:header"]
       ELSE /\ pc' = [pc EXCEPT !["caller"] = "served"]
            /\ UNCHANGED errorHandlerCalls
    /\ UNCHANGED <<hvars, c, call, done, ctxErr, onTimeout, ret, ops, onTimeoutCalls,
                   finishedInTime, consulted, committed>>

ErrorHandlerHeader ==
    /\ pc["caller"] = "errorHandler:header"
    /\ c' = WriteHeader(c, StatusInternalServerError, "error")
    /\ pc' = [pc EXCEPT !["caller"] = "errorHandler:write"]
    /\ UNCHANGED <<hvars, call, done, ctxErr, onTimeout, ret, ops, onTimeoutCalls,
                   errorHandlerCalls, finishedInTime, consulted, committed>>

ErrorHandlerWrite ==
    /\ pc["caller"] = "errorHandler:write"
    /\ c' = WriterWrite(c, "Internal Server Error", "error")
    /\ pc' = [pc EXCEPT !["caller"] = "served"]
    /\ UNCHANGED <<hvars, call, done, ctxErr, onTimeout, ret, ops, onTimeoutCalls,
                   errorHandlerCalls, finishedInTime, consulted, committed>>

(***************************************************************************)
(* The guarded request.                                                    *)
(***************************************************************************)
CallerStep ==
    \/ GuardStart
    \/ GuardSelectDone
    \/ GuardSelectTimeout
    \/ GuardConsult
    \/ JSONCheck("caller")
    \/ JSONHeader("caller")
    \/ JSONWritten("caller")
    \/ JSONEncode("caller")
    \/ RouterWrap
    \/ ErrorHandlerHeader
    \/ ErrorHandlerWrite

WorkerStep ==
    \/ \E k \in HandlerCalls : HandlerCall(k)
    \/ JSONCheck("worker")
    \/ JSONHeader("worker")
    \/ JSONWritten("worker")
    \/ JSONEncode("worker")
    \/ StatusHeader("worker")
    \/ StatusWritten("worker")
    \/ WriteWritten("worker")
    \/ WriteWrite("worker")
    \/ WriteStringWritten("worker")
    \/ WriteStringWrite("worker")
    \/ \E e \in {"nil", "handler error", "deadline exceeded", "canceled"} : HandlerReturn(e)
    \/ HandlerPanic

GuardNext ==
    \/ CallerStep
    \/ WorkerStep
    \/ DeadlineFires
    \/ AmbientCancel

(***************************************************************************)
(*                          The Health manager                             *)
(***************************************************************************)
MaxChecks == 2

\* DefaultHealthConfig: CheckTimeout is 5 seconds; a tick of the model is a second.
DefaultCheckTimeout == 5

DefaultHealthConfig == [CheckTimeout |-> DefaultCheckTimeout, Parallel |-> FALSE]

\* The configurations given to NewHealthWithConfig.
ConfigTimeouts == {0, 1}
OverrideTimeouts == {-1, 0, 2}
Names == {"db", "cache"}

\* NewHealth() and NewHealthWithConfig(config)
Configs ==
    {DefaultHealthConfig}
    \cup {[CheckTimeout |-> t, Parallel |-> p] : t \in ConfigTimeouts, p \in BOOLEAN}

NoResult == [name |-> "", status |-> "", failed |-> FALSE]

HealthInit ==
    /\ config \in Configs
    /\ readiness = <<>>
    /\ liveness = <<>>
    /\ mu = "free"
    /\ hpc = "idle"
    /\ checksCopy = <<>>
    /\ status = 0
    /\ response = <<>>
    /\ results = <<>>
    /\ idx = 0
    /\ rpc = <<>>
    /\ timer = <<>>
    /\ probe = <<>>
    /\ dn = <<>>
    /\ res = <<>>
    /\ ambient = FALSE
    /\ crashed = FALSE
    /\ cancelCalled = <<>>

(***************************************************************************)
(* Registration: Lock, append, Unlock.  Lock waits while a handler holds   *)
(* RLock; nothing between Lock and Unlock blocks or is seen by another     *)
(* goroutine, so the three are one step.                                   *)
(***************************************************************************)
Registered == Len(readiness) + Len(liveness)

healthCheck(name, kind, timeout) == [name |-> name, kind |-> kind, timeout |-> timeout]

\* A registration that loses what was registered before it.
AddReadinessCheckLost(name) ==
    /\ ~crashed
    /\ Registered < MaxChecks
    /\ mu = "free"
    /\ readiness' = <<healthCheck(name, "check", 0)>>
    /\ UNCHANGED <<c, gonly, mu, config, liveness, hpc, checksCopy, status, response,
                   results, idx, rpc, timer, probe, dn, res, ambient, crashed, cancelCalled>>

AddReadinessCheck(name) ==
    /\ ~crashed
    /\ Registered < MaxChecks
    /\ mu = "free"
    /\ readiness' = Append(readiness, healthCheck(name, "check", 0))
    /\ UNCHANGED <<c, gonly, mu, config, liveness, hpc, checksCopy, status, response,
                   results, idx, rpc, timer, probe, dn, res, ambient, crashed, cancelCalled>>

AddReadinessCheckContext(name) ==
    /\ ~crashed
    /\ Registered < MaxChecks
    /\ mu = "free"
    /\ readiness' = Append(readiness, healthCheck(name, "checkFn", 0))
    /\ UNCHANGED <<c, gonly, mu, config, liveness, hpc, checksCopy, status, response,
                   results, idx, rpc, timer, probe, dn, res, ambient, crashed, cancelCalled>>

AddReadinessCheckWithTimeout(name, timeout) ==
    /\ ~crashed
    /\ Registered < MaxChecks
    /\ mu = "free"
    /\ readiness' = Append(readiness, healthCheck(name, "checkFn", timeout))
    /\ UNCHANGED <<c, gonly, mu, config, liveness, hpc, checksCopy, status, response,
                   results, idx, rpc, timer, probe, dn, res, ambient, crashed, cancelCalled>>

AddLivenessCheck(name) ==
    /\ ~crashed
    /\ Registered < MaxChecks
    /\ mu = "free"
    /\ liveness' = Append(liveness, healthCheck(name, "check", 0))
    /\ UNCHANGED <<c, gonly, mu, config, readiness, hpc, checksCopy, status, response,
                   results, idx, rpc, timer, probe, dn, res, ambient, crashed, cancelCalled>>

AddLivenessCheckContext(name) ==
    /\ ~crashed
    /\ Registered < MaxChecks
    /\ mu = "free"
    /\ liveness' = Append(liveness, healthCheck(name, "checkFn", 0))
    /\ UNCHANGED <<c, gonly, mu, config, readiness, hpc, checksCopy, status, response,
                   results, idx, rpc, timer, probe, dn, res, ambient, crashed, cancelCalled>>

AddLivenessCheckWithTimeout(name, timeout) ==
    /\ ~crashed
    /\ Registered < MaxChecks
    /\ mu = "free"
    /\ liveness' = Append(liveness, healthCheck(name, "checkFn", timeout))
    /\ UNCHANGED <<c, gonly, mu, config, readiness, hpc, checksCopy, status, response,
                   results, idx, rpc, timer, probe, dn, res, ambient, crashed, cancelCalled>>

(***************************************************************************)
(* Health.handle: RLock and the snapshot (handle), then RUnlock and the    *)
(* start of the evaluation (RUnlock): in parallel mode one goroutine per   *)
(* check, in sequential mode the call of runCheck for the first check.     *)
(***************************************************************************)
handle(checks) ==
    /\ ~crashed
    /\ hpc = "idle"
    /\ mu = "free"
    /\ mu' = "read"
    /\ checksCopy' = checks
    /\ hpc' = "locked"
    /\ UNCHANGED <<c, gonly, config, readiness, liveness, status, response, results,
                   idx, rpc, timer, probe, dn, res, ambient, crashed, cancelCalled>>

\* A handler that starts every check at once in sequential mode too.
RUnlockStartAll ==
    LET n == Len(checksCopy) IN
    /\ ~crashed
    /\ hpc = "locked"
    /\ mu' = "free"
    /\ status' = StatusOK
    /\ response' = <<>>
    /\ results' = <<>>
    /\ timer' = [i \in 1..n |-> -1]
    /\ probe' = [i \in 1..n |-> "idle"]
    /\ dn' = [i \in 1..n |-> <<>>]
    /\ res' = [i \in 1..n |-> NoResult]
    /\ cancelCalled' = [i \in 1..n |-> FALSE]
    /\ rpc' = [i \in 1..n |-> "start"]
    /\ IF config.Parallel
       THEN /\ idx' = 0
            /\ hpc' = IF n = 0 THEN "write" ELSE "collect"
       ELSE /\ idx' = 1
            /\ hpc' = IF n = 0 THEN "write" ELSE "seq"
    /\ UNCHANGED <<c, gonly, config, readiness, liveness, checksCopy, ambient, crashed>>

\* A handler that keeps the read lock for the whole evaluation.
RUnlockDeferred ==
    LET n == Len(checksCopy) IN
    /\ ~crashed
    /\ hpc = "locked"
    /\ status' = StatusOK
    /\ response' = <<>>
    /\ results' = <<>>
    /\ timer' = [i \in 1..n |-> -1]
    /\ probe' = [i \in 1..n |-> "idle"]
    /\ dn' = [i \in 1..n |-> <<>>]
    /\ res' = [i \in 1..n |-> NoResult]
    /\ cancelCalled' = [i \in 1..n |-> FALSE]
    /\ IF config.Parallel
       THEN /\ rpc' = [i \in 1..n |-> "start"]
            /\ idx' = 0
            /\ hpc' = IF n = 0 THEN "write" ELSE "collect"
       ELSE /\ rpc' = [i \in 1..n |-> IF i = 1 THEN "start" ELSE "idle"]
            /\ idx' = 1
            /\ hpc' = IF n = 0 THEN "write" ELSE "seq"
    /\ UNCHANGED <<c, gonly, mu, config, readiness, liveness, checksCopy, ambient,
                   crashed>>

RUnlock ==
    LET n == Len(checksCopy) IN
    /\ ~crashed
    /\ hpc = "locked"
    /\ mu' = "free"
    /\ status' = StatusOK
    /\ response' = <<>>
    /\ results' = <<>>
    /\ timer' = [i \in 1..n |-> -1]
    /\ probe' = [i \in 1..n |-> "idle"]
    /\ dn' = [i \in 1..n |-> <<>>]
    /\ res' = [i \in 1..n |-> NoResult]
    /\ cancelCalled' = [i \in 1..n |-> FALSE]
    /\ IF config.Parallel
       THEN /\ rpc' = [i \in 1..n |-> "start"]
            /\ idx' = 0
            /\ hpc' = IF n = 0 THEN "write" ELSE "collect"
       ELSE /\ rpc' = [i \in 1..n |-> IF i = 1 THEN "start" ELSE "idle"]
            /\ idx' = 1
            /\ hpc' = IF n = 0 THEN "write" ELSE "seq"
    /\ UNCHANGED <<c, gonly, config, readiness, liveness, checksCopy, ambient, crashed>>

LiveHandler == handle(liveness)

ReadyHandler == handle(readiness)

(***************************************************************************)
(* Health.runCheck for the check at position i of the snapshot.            *)
(***************************************************************************)
TimeoutGlobalOnly(hc) == config.CheckTimeout

\* A runCheck that takes every override other than zero.
TimeoutNonZero(hc) == IF hc.timeout # 0 THEN hc.timeout ELSE config.CheckTimeout

\* timeout := h.config.CheckTimeout; if hc.timeout > 0 { timeout = hc.timeout }
Timeout(hc) == IF hc.timeout > 0 THEN hc.timeout ELSE config.CheckTimeout

\* A timer of duration d: a duration of zero or less has elapsed at once.
Arm(d) == IF d > 0 THEN d ELSE 0

FailedNoPrefix(hc, err) == [name |-> hc.name, status |-> err, failed |-> TRUE]

\* The three results of runCheck.
Failed(hc, err) == [name |-> hc.name, status |-> "FAIL: " \o err, failed |-> TRUE]
Passed(hc) == [name |-> hc.name, status |-> "OK", failed |-> FALSE]
TimedOut(hc) == [name |-> hc.name, status |-> "FAIL: check timed out", failed |-> TRUE]

\* A context-aware check: WithTimeout arms the deadline, then the probe's
\* goroutine is started.  A plain check: the probe's goroutine is started;
\* time.After is evaluated when the select is entered (RunCheckAfter).
RunCheckStart(i) ==
    /\ ~crashed
    /\ i \in DOMAIN rpc
    /\ rpc[i] = "start"
    /\ probe' = [probe EXCEPT ![i] = "running"]
    /\ IF checksCopy[i].kind = "check"
       THEN /\ rpc' = [rpc EXCEPT ![i] = "after"]
            /\ UNCHANGED timer
       ELSE /\ rpc' = [rpc EXCEPT ![i] = "select"]
            /\ timer' = [timer EXCEPT ![i] = Arm(Timeout(checksCopy[i]))]
    /\ UNCHANGED <<c, gonly, mu, config, readiness, liveness, hpc, checksCopy, status,
                   response, results, idx, dn, res, ambient, crashed, cancelCalled>>

RunCheckAfter(i) ==
    /\ ~crashed
    /\ i \in DOMAIN rpc
    /\ rpc[i] = "after"
    /\ rpc' = [rpc EXCEPT ![i] = "select"]
    /\ timer' = [timer EXCEPT ![i] = Arm(Timeout(checksCopy[i]))]
    /\ UNCHANGED <<c, gonly, mu, config, readiness, liveness, hpc, checksCopy, status,
                   response, results, idx, probe, dn, res, ambient, crashed, cancelCalled>>

\* A runCheck that returns the probe's result without the deferred cancel().
RunCheckDoneNoCancel(i) ==
    /\ ~crashed
    /\ i \in DOMAIN rpc
    /\ rpc[i] = "select"
    /\ dn[i] # <<>>
    /\ res' = [res EXCEPT ![i] = IF Head(dn[i]) # "nil"
                                 THEN Failed(checksCopy[i], Head(dn[i]))
                                 ELSE Passed(checksCopy[i])]
    /\ dn' = [dn EXCEPT ![i] = Tail(@)]
    /\ rpc' = [rpc EXCEPT ![i] = "returned"]
    /\ timer' = [timer EXCEPT ![i] = -1]
    /\ UNCHANGED <<c, gonly, mu, config, readiness, liveness, hpc, checksCopy, status,
                   response, results, idx, probe, ambient, crashed, cancelCalled>>

\* select: case err := <-done
RunCheckDone(i) ==
    /\ ~crashed
    /\ i \in DOMAIN rpc
    /\ rpc[i] = "select"
    /\ dn[i] # <<>>
    /\ res' = [res EXCEPT ![i] = IF Head(dn[i]) # "nil"
                                 THEN Failed(checksCopy[i], Head(dn[i]))
                                 ELSE Passed(checksCopy[i])]
    /\ dn' = [dn EXCEPT ![i] = Tail(@)]
    /\ rpc' = [rpc EXCEPT ![i] = "returned"]
    /\ timer' = [timer EXCEPT ![i] = -1]
    /\ cancelCalled' = [cancelCalled EXCEPT ![i] = checksCopy[i].kind = "checkFn"]
    /\ UNCHANGED <<c, gonly, mu, config, readiness, liveness, hpc, checksCopy, status,
                   response, results, idx, probe, ambient, crashed>>

DeadlineReadyOwnTimer(i) == timer[i] = 0

\* The other case of the select is ready: <-time.After(timeout) of a plain
\* check, <-ctx.Done() of a context-aware one (its deadline, or the parent).
DeadlineReady(i) ==
    IF checksCopy[i].kind = "check"
    THEN timer[i] = 0
    ELSE timer[i] = 0 \/ ambient

\* A runCheck that tries the check again when it has timed out.
RunCheckTimeoutRetry(i) ==
    /\ ~crashed
    /\ i \in DOMAIN rpc
    /\ rpc[i] = "select"
    /\ DeadlineReady(i)
    /\ rpc' = [rpc EXCEPT ![i] = "start"]
    /\ timer' = [timer EXCEPT ![i] = -1]
    /\ UNCHANGED <<c, gonly, mu, config, readiness, liveness, hpc, checksCopy, status,
                   response, results, idx, probe, dn, res, ambient, crashed, cancelCalled>>

RunCheckTimeout(i) ==
    /\ ~crashed
    /\ i \in DOMAIN rpc
    /\ rpc[i] = "select"
    /\ DeadlineReady(i)
    /\ res' = [res EXCEPT ![i] = TimedOut(checksCopy[i])]
    /\ rpc' = [rpc EXCEPT ![i] = "returned"]
    /\ timer' = [timer EXCEPT ![i] = -1]
    /\ cancelCalled' = [cancelCalled EXCEPT ![i] = checksCopy[i].kind = "checkFn"]
    /\ UNCHANGED <<c, gonly, mu, config, readiness, liveness, hpc, checksCopy, status,
                   response, results, idx, probe, dn, ambient, crashed>>

(***************************************************************************)
(* The probe's goroutine: done <- hc.check() / done <- hc.checkFn(ctx).    *)
(* The probe is the application's: it returns nil or an error at any       *)
(* time, never returns, or panics; nothing recovers a panic there.         *)
(***************************************************************************)
ProbeOutcomes == {"nil", "connection refused"}

\* A probe goroutine that sends its result twice.
ProbeReturnTwice(i, err) ==
    /\ ~crashed
    /\ i \in DOMAIN probe
    /\ probe[i] = "running"
    /\ dn' = [dn EXCEPT ![i] = Append(Append(@, err), err)]
    /\ probe' = [probe EXCEPT ![i] = IF timer[i] = 0 THEN "finished late" ELSE "finished"]
    /\ UNCHANGED <<c, gonly, mu, config, readiness, liveness, hpc, checksCopy, status,
                   response, results, idx, rpc, timer, res, ambient, crashed, cancelCalled>>

ProbeReturn(i, err) ==
    /\ ~crashed
    /\ i \in DOMAIN probe
    /\ probe[i] = "running"
    /\ dn' = [dn EXCEPT ![i] = Append(@, err)]
    /\ probe' = [probe EXCEPT ![i] = IF timer[i] = 0 THEN "finished late" ELSE "finished"]
    /\ UNCHANGED <<c, gonly, mu, config, readiness, liveness, hpc, checksCopy, status,
                   response, results, idx, rpc, timer, res, ambient, crashed, cancelCalled>>

\* The panic ends the process: every goroutine, channel and timer is gone.
\* What stays is what left the process (c) and, as history, how far the
\* handler had come (hpc) and which probe panicked.
ProbePanic(i) ==
    /\ ~crashed
    /\ i \in DOMAIN probe
    /\ probe[i] = "running"
    /\ probe' = [j \in DOMAIN probe |-> IF j = i THEN "panicked" ELSE "dead"]
    /\ crashed' = TRUE
    /\ cancelCalled' = [j \in DOMAIN cancelCalled |-> FALSE]
    /\ rpc' = [j \in DOMAIN rpc |-> "dead"]
    /\ timer' = [j \in DOMAIN timer |-> -1]
    /\ dn' = [j \in DOMAIN dn |-> <<>>]
    /\ res' = [j \in DOMAIN res |-> NoResult]
    /\ results' = <<>>
    /\ response' = <<>>
    /\ status' = 0
    /\ idx' = 0
    /\ ambient' = FALSE
    /\ UNCHANGED <<c, gonly, mu, config, readiness, liveness, hpc, checksCopy>>

(***************************************************************************)
(* Time and the request's own context.                                     *)
(***************************************************************************)
Tick ==
    /\ ~crashed
    /\ \E i \in DOMAIN timer : timer[i] > 0
    /\ timer' = [i \in DOMAIN timer |-> IF timer[i] > 0 THEN timer[i] - 1 ELSE timer[i]]
    /\ UNCHANGED <<c, gonly, mu, config, readiness, liveness, hpc, checksCopy, status,
                   response, results, idx, rpc, probe, dn, res, ambient, crashed, cancelCalled>>

\* The request's context is cancelled (the client went away).  Only the
\* select of a context-aware check observes it, so the step is taken when
\* one is waiting.
RequestCancelled ==
    /\ ~crashed
    /\ \E i \in DOMAIN rpc : rpc[i] = "select" /\ checksCopy[i].kind = "checkFn"
    /\ ~ambient
    /\ ambient' = TRUE
    /\ UNCHANGED <<c, gonly, mu, config, readiness, liveness, hpc, checksCopy, status,
                   response, results, idx, rpc, timer, probe, dn, res, crashed, cancelCalled>>

(***************************************************************************)
(* Health.handle, the rest: fan-in or the sequential loop, then the report.*)
(***************************************************************************)
PutFirst(m, name, s) ==
    [n \in DOMAIN m \cup {name} |-> IF n \in DOMAIN m THEN m[n] ELSE s]

\* response[result.name] = result.status
Put(m, name, s) == [n \in DOMAIN m \cup {name} |-> IF n = name THEN s ELSE m[n]]

FoldLast(st, result) == IF result.failed THEN StatusServiceUnavailable ELSE StatusOK

\* if result.failed { status = http.StatusServiceUnavailable }
Fold(st, result) == IF result.failed THEN StatusServiceUnavailable ELSE st

\* Parallel mode, the goroutine of check i: results <- result
FanOutSend(i) ==
    /\ ~crashed
    /\ config.Parallel
    /\ i \in DOMAIN rpc
    /\ rpc[i] = "returned"
    /\ results' = Append(results, res[i])
    /\ rpc' = [rpc EXCEPT ![i] = "sent"]
    /\ UNCHANGED res
    /\ UNCHANGED <<c, gonly, mu, config, readiness, liveness, hpc, checksCopy, status,
                   response, idx, timer, probe, dn, ambient, crashed, cancelCalled>>

\* Parallel mode, the handler: result := <-results, once per snapshot check
Collect ==
    /\ ~crashed
    /\ hpc = "collect"
    /\ results # <<>>
    /\ response' = Put(response, Head(results).name, Head(results).status)
    /\ status' = Fold(status, Head(results))
    /\ results' = Tail(results)
    /\ idx' = idx + 1
    /\ hpc' = IF idx + 1 = Len(checksCopy) THEN "write" ELSE "collect"
    /\ UNCHANGED <<c, gonly, mu, config, readiness, liveness, checksCopy, rpc, timer,
                   probe, dn, res, ambient, crashed, cancelCalled>>

\* Sequential mode, the handler: runCheck returned for the check at idx
SeqCollect ==
    /\ ~crashed
    /\ hpc = "seq"
    /\ rpc[idx] = "returned"
    /\ response' = Put(response, res[idx].name, res[idx].status)
    /\ status' = Fold(status, res[idx])
    /\ idx' = idx + 1
    /\ rpc' = [i \in DOMAIN rpc |->
                 IF i = idx THEN "folded" ELSE IF i = idx + 1 THEN "start" ELSE rpc[i]]
    /\ hpc' = IF idx = Len(checksCopy) THEN "write" ELSE "seq"
    /\ UNCHANGED res
    /\ UNCHANGED <<c, gonly, mu, config, readiness, liveness, checksCopy, results, timer,
                   probe, dn, ambient, crashed, cancelCalled>>

StatusTextUnavailable(code) == "Service Unavailable"

\* http.StatusText
StatusText(code) == IF code = StatusOK THEN "OK" ELSE "Service Unavailable"

\* Context.JSON as one step (a v that is not nil): no other goroutine uses
\* the Context of a health request.
JSON(cc, code, v, by) ==
    WriterWrite(IF ~cc.written
                THEN [WriteHeader(cc, code, by) EXCEPT !.written = TRUE]
                ELSE cc,
                v, by)

\* A report that lists the checks registered now, not those of the snapshot.
WriteReportLive ==
    /\ ~crashed
    /\ hpc = "write"
    /\ c' = JSON(c, status,
                 [status |-> StatusText(status),
                  checks |-> [n \in DOMAIN response
                                  \cup {readiness[i].name : i \in DOMAIN readiness}
                                  \cup {liveness[i].name : i \in DOMAIN liveness} |->
                                IF n \in DOMAIN response THEN response[n] ELSE "OK"]],
                 "health")
    /\ hpc' = "done"
    /\ UNCHANGED <<gonly, mu, config, readiness, liveness, checksCopy, status, response,
                   results, idx, rpc, timer, probe, dn, res, ambient, crashed, cancelCalled>>

\* return c.JSON(status, map[string]any{"status": ..., "checks": response})
WriteReport ==
    /\ ~crashed
    /\ hpc = "write"
    /\ c' = JSON(c, status, [status |-> StatusText(status), checks |-> response], "health")
    /\ hpc' = "done"
    /\ UNCHANGED <<gonly, mu, config, readiness, liveness, checksCopy, status, response,
                   results, idx, rpc, timer, probe, dn, res, ambient, crashed, cancelCalled>>

(***************************************************************************)
(* Specifications.                                                         *)
(***************************************************************************)
\* No guarded request while the Health manager is studied, and conversely.
GuardIdle ==
    /\ pc = [p \in Procs |-> "idle"]
    /\ call = [p \in Procs |-> NoCall]
    /\ done = <<>>
    /\ ctxErr = "none"
    /\ onTimeout = "default"
    /\ ret = "unset"
    /\ ops = 0
    /\ onTimeoutCalls = 0
    /\ errorHandlerCalls = 0
    /\ finishedInTime = "no"
    /\ consulted = "none"
    /\ committed = [set |-> FALSE, code |-> 0, body |-> <<>>]

HealthIdle ==
    /\ config = DefaultHealthConfig
    /\ readiness = <<>>
    /\ liveness = <<>>
    /\ mu = "free"
    /\ hpc = "idle"
    /\ checksCopy = <<>>
    /\ status = 0
    /\ response = <<>>
    /\ results = <<>>
    /\ idx = 0
    /\ rpc = <<>>
    /\ timer = <<>>
    /\ probe = <<>>
    /\ dn = <<>>
    /\ res = <<>>
    /\ ambient = FALSE
    /\ crashed = FALSE
    /\ cancelCalled = <<>>

GuardSpecInit == GuardInit /\ HealthIdle

GuardSpec == GuardSpecInit /\ [][GuardNext]_vars

\* Timers fire and the caller's goroutine is scheduled; the inner handler is
\* arbitrary code and need not ever take its next step.
GuardFairSpec == GuardSpec /\ WF_vars(CallerStep) /\ WF_vars(DeadlineFires)

Registration ==
    \/ \E n \in Names : AddReadinessCheck(n)
    \/ \E n \in Names : AddReadinessCheckContext(n)
    \/ \E n \in Names, t \in OverrideTimeouts : AddReadinessCheckWithTimeout(n, t)
    \/ \E n \in Names : AddLivenessCheck(n)
    \/ \E n \in Names : AddLivenessCheckContext(n)
    \/ \E n \in Names, t \in OverrideTimeouts : AddLivenessCheckWithTimeout(n, t)

\* The goroutines of the Health manager's own code.
Evaluation ==
    \/ LiveHandler
    \/ ReadyHandler
    \/ RUnlock
    \/ \E i \in 1..Len(checksCopy) : RunCheckStart(i)
    \/ \E i \in 1..Len(checksCopy) : RunCheckAfter(i)
    \/ \E i \in 1..Len(checksCopy) : RunCheckDone(i)
    \/ \E i \in 1..Len(checksCopy) : RunCheckTimeout(i)
    \/ \E i \in 1..Len(checksCopy) : FanOutSend(i)
    \/ Collect
    \/ SeqCollect
    \/ WriteReport

Probes ==
    \/ \E i \in 1..Len(checksCopy), e \in ProbeOutcomes : ProbeReturn(i, e)
    \/ \E i \in 1..Len(checksCopy) : ProbePanic(i)

HealthNext ==
    \/ Registration
    \/ Evaluation
    \/ Probes
    \/ Tick
    \/ RequestCancelled

HealthSpecInit == HealthInit /\ c = newContext /\ GuardIdle

HealthSpec == HealthSpecInit /\ [][HealthNext]_vars

\* The handler's goroutine, the goroutines of runCheck and the timers run;
\* a probe is the application's code and need not ever return.
HealthFairSpec == HealthSpec /\ WF_vars(Evaluation) /\ WF_vars(Tick)

(***************************************************************************)
(*                              The claims                                 *)
(***************************************************************************)

\* C1: in every interleaving of the inner handler and the deadline path, the
\* response is never written by both: the status line and the body bytes of
\* a request come from the inner handler or from the timeout fallback, not
\* from the two of them.
C1_SingleWrite == ~({"handler", "timeout"} \subseteq Writers(c))

\* C2: once the fallback has committed its response, nothing the inner
\* handler does afterwards alters it: the status code and the body stay as
\* the fallback left them.
C2_LateWriteNoOp ==
    committed.set => (c.code = committed.code /\ c.body = committed.body)

\* C3: a check whose probe panics is reported as failed, and the evaluation
\* is not aborted: it goes on to its report, in which the check appears with
\* a failure message.
C3_FaultContained ==
    (\E i \in DOMAIN probe : probe[i] = "panicked")
        ~> (/\ hpc = "done"
            /\ \A i \in DOMAIN probe :
                  probe[i] = "panicked"
                      => /\ checksCopy[i].name \in DOMAIN response
                         /\ response[checksCopy[i].name] \notin {"", "OK"})

\* C4: a check whose probe had not finished when its timeout elapsed is
\* resolved as "FAIL: check timed out" and failed, never as "OK" or with the
\* probe's late error, whatever the probe returned afterwards.
C4_LateResultDiscarded ==
    \A i \in DOMAIN rpc :
        (rpc[i] = "returned" /\ probe[i] = "finished late")
            => res[i] = TimedOut(checksCopy[i])

\* C5: in every report, the aggregate status is "OK" with HTTP 200 if and
\* only if every status of the checks map is "OK"; otherwise it is
\* "Service Unavailable" with HTTP 503.
C5_AggregateIffAllOK ==
    hpc = "done" =>
        LET report == c.body[Len(c.body)].data IN
        IF \A n \in DOMAIN report.checks : report.checks[n] = "OK"
        THEN c.code = StatusOK /\ report.status = "OK"
        ELSE c.code = StatusServiceUnavailable /\ report.status = "Service Unavailable"

\* C6: when the guard resolves timed out and nothing has been written, it
\* invokes OnTimeout exactly once (and never otherwise) and returns what
\* OnTimeout returned; the default OnTimeout is JSON(504, "request timed
\* out"), which is the whole response when the handler wrote nothing.
C6_FallbackOnce ==
    /\ onTimeoutCalls = (IF consulted = "unwritten" THEN 1 ELSE 0)
    /\ (consulted = "unwritten" /\ ret # "unset")
          => ret = (IF onTimeout = "customErr" THEN "onTimeout error" ELSE "nil")
    /\ (consulted = "unwritten" /\ onTimeout = "default")
          => call["caller"] = DefaultOnTimeout
    /\ (committed.set /\ onTimeout = "default" /\ ops = 0)
          => /\ committed.code = StatusGatewayTimeout
             /\ committed.body = <<[by |-> "timeout", data |-> "request timed out"]>>

C6_Witness ==
    /\ consulted = "unwritten"
    /\ onTimeout = "default"
    /\ pc["caller"] = "served"
    /\ ops = 0
    /\ c.code = StatusGatewayTimeout

\* C7: when the guard resolves timed out and the response is already
\* written, OnTimeout is not invoked, the guard returns the context's error,
\* and nothing more is written: the router does not call its error handler.
C7_WrittenSilent ==
    consulted = "written" =>
        /\ onTimeoutCalls = 0
        /\ ret = ctxErr
        /\ ret \in {"deadline exceeded", "canceled"}
        /\ errorHandlerCalls = 0
        /\ Writers(c) \cap {"timeout", "error"} = {}

C7_Witness ==
    /\ consulted = "written"
    /\ pc["caller"] = "served"
    /\ ret = "deadline exceeded"
    /\ c.body # <<>>

\* C8: when the inner handler finished before the deadline, the guard
\* returns the handler's outcome, OnTimeout is not invoked and the fallback
\* writes nothing.
C8_CompletedUnchanged ==
    (finishedInTime # "no" /\ ret # "unset")
        => /\ ret = finishedInTime
           /\ onTimeoutCalls = 0
           /\ "timeout" \notin Writers(c)

\* C9: the guard always returns to its caller, even if the inner handler
\* never returns.
C9_GuardResolves == <>(ret # "unset")

C9_Witness ==
    /\ ret # "unset"
    /\ pc["worker"] = "run"
    /\ done = <<>>
    /\ ops = 0

\* C10: an evaluation that has started always ends with its report written,
\* whether or not its probes return.
C10_EvaluationTerminates == (hpc # "idle") ~> (hpc = "done" /\ c.body # <<>>)

\* C11: the worker sends exactly one value on the completion channel on
\* every path, a panic of the handler included: the panic is recovered there,
\* reaches the guard's caller as an error and never ends the process.
C11_WorkerAlwaysSends ==
    /\ Len(done) <= 1
    /\ (pc["worker"] = "returned")
          <=> (done # <<>> \/ (ret # "unset" /\ consulted = "none"))
    /\ ~(done # <<>> /\ ret # "unset" /\ consulted = "none")
    /\ ~crashed
    /\ (ret = "panic recovered" /\ pc["caller"] = "served")
          => (errorHandlerCalls = 1 \/ Written(c))

C11_Witness ==
    /\ ret = "panic recovered"
    /\ pc["caller"] = "served"
    /\ errorHandlerCalls = 1

\* C12: the handler runs only once the guard has installed its context,
\* that context has a deadline, and whenever the guard resolves timed out
\* the context is done, so that a handler waiting on it can return.
C12_ContextDoneOnTimeout ==
    /\ pc["worker"] # "idle" => pc["caller"] # "start"
    /\ (pc["worker"] = "run" /\ ctxErr = "none") => ENABLED DeadlineFires
    /\ (pc["caller"] = "consult" \/ consulted # "none")
          => /\ ctxErr \in {"deadline exceeded", "canceled"}
             /\ ctxErr \in HandlerOutcomes
             /\ pc["worker"] = "run" => ENABLED HandlerReturn(ctxErr)

C12_Witness ==
    /\ consulted # "none"
    /\ pc["worker"] = "returned"
    /\ done = <<"deadline exceeded">>

\* C13: the evaluation of a collection without checks reports 200, status
\* "OK" and an empty checks map, in both modes.
C13_EmptyCollectionOK ==
    (hpc = "done" /\ checksCopy = <<>>) =>
        LET report == c.body[Len(c.body)].data IN
        /\ c.code = StatusOK
        /\ report.status = "OK"
        /\ DOMAIN report.checks = {}
        /\ Len(c.body) = 1

C13_Witness ==
    /\ hpc = "done"
    /\ checksCopy = <<>>
    /\ config.Parallel
    /\ Registered > 0
    /\ c.code = StatusOK

\* C14: the timer of a check is armed with the check's override if it has
\* one and with the global CheckTimeout otherwise; until that much time has
\* passed the check cannot be resolved as timed out, so a result that is
\* there after the global timeout but before the override is taken as is.
C14_EffectiveTimeout ==
    /\ [](\A i \in DOMAIN rpc :
            rpc[i] = "select" =>
                LET effective == IF checksCopy[i].timeout > 0
                                 THEN checksCopy[i].timeout
                                 ELSE config.CheckTimeout IN
                /\ timer[i] \in 0..effective
                /\ (timer[i] > 0 /\ ~ambient) => ~ENABLED RunCheckTimeout(i)
                /\ (timer[i] > 0 /\ dn[i] # <<>>) => ENABLED RunCheckDone(i))
    /\ [][\A i \in DOMAIN timer \cap DOMAIN timer' :
            (timer[i] = -1 /\ timer'[i] # -1) =>
                timer'[i] = (IF checksCopy[i].timeout > 0
                             THEN checksCopy[i].timeout
                             ELSE config.CheckTimeout)]_vars

C14_Witness ==
    \E i \in DOMAIN rpc :
        /\ rpc[i] = "select"
        /\ checksCopy[i].timeout > config.CheckTimeout
        /\ config.CheckTimeout > 0
        /\ timer[i] = checksCopy[i].timeout - config.CheckTimeout
        /\ dn[i] = <<"nil">>

\* C15: runCheck maps the probe's nil to status "OK" and failed = false, the
\* probe's error e to "FAIL: " followed by e and failed = true, and the
\* deadline to "FAIL: check timed out" and failed = true; so an outcome is
\* not failed exactly when its status is "OK".
C15_OutcomeMapping ==
    /\ [](\A i \in DOMAIN res :
            res[i] # NoResult =>
                /\ res[i].name = checksCopy[i].name
                /\ (res[i].failed = FALSE) <=> (res[i].status = "OK")
                /\ res[i].status \in
                      {"OK", "FAIL: check timed out", "FAIL: connection refused"})
    /\ [][\A i \in DOMAIN rpc \cap DOMAIN rpc' :
            (rpc[i] = "select" /\ rpc'[i] = "returned") =>
                res'[i] =
                    IF dn'[i] = dn[i]
                    THEN [name |-> checksCopy[i].name,
                          status |-> "FAIL: check timed out", failed |-> TRUE]
                    ELSE IF Head(dn[i]) = "nil"
                    THEN [name |-> checksCopy[i].name, status |-> "OK", failed |-> FALSE]
                    ELSE [name |-> checksCopy[i].name,
                          status |-> "FAIL: " \o Head(dn[i]), failed |-> TRUE]]_vars

C15_Witness ==
    /\ hpc = "done"
    /\ \E i \in DOMAIN res :
          /\ res[i] = [name |-> checksCopy[i].name,
                       status |-> "FAIL: connection refused", failed |-> TRUE]
          /\ c.body[1].data.checks[checksCopy[i].name] = "FAIL: connection refused"

\* C16: in sequential mode the probe of a check is started only when every
\* check before it in the snapshot has been resolved and folded into the
\* report; at most one runCheck is in progress.
C16_SequentialOrder ==
    (~config.Parallel /\ ~crashed) =>
        /\ \A j \in DOMAIN rpc :
              (rpc[j] # "idle" \/ probe[j] # "idle") =>
                  \A i \in 1..(j - 1) : rpc[i] = "folded" /\ res[i] # NoResult
        /\ Cardinality({i \in DOMAIN rpc : rpc[i] \in {"start", "after", "select"}}) <= 1

C16_Witness ==
    /\ ~config.Parallel
    /\ hpc = "seq"
    /\ Len(checksCopy) = 2
    /\ rpc[1] = "folded"
    /\ res[1].status = "FAIL: check timed out"
    /\ probe[1] = "running"
    /\ probe[2] = "running"

\* C17: in parallel mode every check of the snapshot has its worker from
\* the start and each worker can start whatever the others do; the report
\* is written only when one outcome per check has been sent and collected;
\* its status is 503 exactly if some outcome failed, whatever the order in
\* which the outcomes were collected.
C17_ParallelFanIn ==
    (config.Parallel /\ ~crashed /\ hpc \in {"collect", "write", "done"}) =>
        /\ \A i \in DOMAIN rpc :
              /\ rpc[i] # "idle"
              /\ rpc[i] = "start" => ENABLED RunCheckStart(i)
        /\ DOMAIN rpc = DOMAIN checksCopy
        /\ idx + Len(results) = Cardinality({i \in DOMAIN rpc : rpc[i] = "sent"})
        /\ hpc \in {"write", "done"} =>
              /\ idx = Len(checksCopy)
              /\ results = <<>>
              /\ \A i \in DOMAIN rpc : rpc[i] = "sent" /\ res[i] # NoResult
              /\ status = (IF \E i \in DOMAIN res : res[i].failed
                           THEN StatusServiceUnavailable ELSE StatusOK)
        /\ hpc = "done" => c.code = status

C17_Witness ==
    /\ config.Parallel
    /\ hpc = "collect"
    /\ Len(checksCopy) = 2
    /\ idx = 1
    /\ results = <<res[1]>>
    /\ ~res[1].failed
    /\ res[2].failed
    /\ status = StatusServiceUnavailable

\* C18: the handler holds the read lock only between RLock and RUnlock,
\* around the copy: no probe runs then. Whenever the handler is elsewhere,
\* a probe hanging or not, every Add... call can complete, and a handler
\* can always take its snapshot.
C18_LockOnlyForCopy ==
    /\ (mu = "read") <=> (hpc = "locked")
    /\ (\E i \in DOMAIN probe : probe[i] = "running") => mu = "free"
    /\ (~crashed /\ Registered < MaxChecks /\ hpc # "locked") =>
          /\ ENABLED AddReadinessCheck("db")
          /\ ENABLED AddReadinessCheckContext("db")
          /\ ENABLED AddReadinessCheckWithTimeout("db", 2)
          /\ ENABLED AddLivenessCheck("db")
          /\ ENABLED AddLivenessCheckContext("db")
          /\ ENABLED AddLivenessCheckWithTimeout("db", 2)
    /\ (~crashed /\ hpc = "idle") => (ENABLED LiveHandler /\ ENABLED ReadyHandler)
    /\ (~crashed /\ hpc = "locked") => ENABLED RUnlock

C18_Witness ==
    /\ hpc = "seq"
    /\ liveness = <<>>
    /\ Len(checksCopy) = 1
    /\ Len(readiness) = 2
    /\ probe[1] = "running"
    /\ timer[1] = 0

\* C19: once the request's context is cancelled, the select of a
\* context-aware check in flight has its ctx.Done() case ready, whatever is
\* left of the check's own timeout.
C19_AmbientCancelPropagates ==
    \A i \in DOMAIN rpc :
        (ambient /\ rpc[i] = "select" /\ checksCopy[i].kind = "checkFn")
            => (DeadlineReady(i) /\ ENABLED RunCheckTimeout(i))

C19_Witness ==
    \E i \in DOMAIN rpc :
        /\ ambient
        /\ rpc[i] = "select"
        /\ checksCopy[i].kind = "checkFn"
        /\ timer[i] > 0
        /\ probe[i] = "running"

\* C20 (as stated): with two checks of one name, in both modes, the
\* report's entry for the name is the status of the one registered later.
C20_LaterRegisteredWins ==
    (hpc = "done" /\ ~crashed) =>
        \A j \in DOMAIN checksCopy :
            (\A k \in DOMAIN checksCopy : k > j => checksCopy[k].name # checksCopy[j].name)
                => c.body[1].data.checks[checksCopy[j].name] = res[j].status

\* C20 (amended): every probe of the snapshot is run and the report has one
\* entry per name, written by each outcome as it is folded, so that it
\* holds the status of the check of that name folded last: the one
\* registered later in sequential mode, the one whose outcome arrives later
\* in parallel mode.
C20_LaterCollectedWins ==
    /\ []((hpc = "done" /\ ~crashed) =>
            LET checks == c.body[1].data.checks IN
            /\ \A i \in DOMAIN probe : probe[i] # "idle"
            /\ DOMAIN checks = {checksCopy[i].name : i \in DOMAIN checksCopy}
            /\ \A n \in DOMAIN checks :
                  \E i \in DOMAIN checksCopy :
                      checksCopy[i].name = n /\ checks[n] = res[i].status
            /\ ~config.Parallel =>
                  \A j \in DOMAIN checksCopy :
                      (\A k \in DOMAIN checksCopy :
                           k > j => checksCopy[k].name # checksCopy[j].name)
                          => checks[checksCopy[j].name] = res[j].status)
    /\ [][(hpc \in {"seq", "collect"} /\ idx' = idx + 1) =>
            LET r == IF config.Parallel THEN Head(results) ELSE res[idx] IN
            /\ DOMAIN response' = DOMAIN response \cup {r.name}
            /\ \A n \in DOMAIN response' :
                  response'[n] = IF n = r.name THEN r.status ELSE response[n]]_vars

C20_Witness ==
    /\ hpc = "done"
    /\ config.Parallel
    /\ Len(checksCopy) = 2
    /\ checksCopy[1].name = checksCopy[2].name
    /\ res[1].status # res[2].status
    /\ c.body[1].data.checks[checksCopy[1].name] = res[1].status

\* C21: the timer of a check without an override runs for CheckTimeout,
\* and for the default of 5 seconds when the configuration leaves
\* CheckTimeout at zero, however the manager was built.
C21_ZeroMeansDefault ==
    [][\A i \in DOMAIN timer \cap DOMAIN timer' :
          (timer[i] = -1 /\ timer'[i] # -1 /\ checksCopy[i].timeout <= 0) =>
              timer'[i] = (IF config.CheckTimeout = 0
                           THEN DefaultCheckTimeout
                           ELSE config.CheckTimeout)]_vars

\* C22: Router.wrap invokes the error handler exactly when the handler
\* chain returned an error and the Context is not written, at most once per
\* request and nowhere else.
C22_ErrorHandlerIff ==
    /\ [](errorHandlerCalls <= 1)
    /\ [][IF pc["caller"] = "wrap" /\ pc'["caller"] # "wrap"
          THEN IF ret # "nil" /\ ~Written(c)
               THEN errorHandlerCalls' = errorHandlerCalls + 1
               ELSE errorHandlerCalls' = errorHandlerCalls
          ELSE errorHandlerCalls' = errorHandlerCalls]_vars

C22_Witness ==
    /\ pc["caller"] = "served"
    /\ ret = "handler error"
    /\ errorHandlerCalls = 1
    /\ c.code = StatusInternalServerError
    /\ c.body = <<[by |-> "error", data |-> "Internal Server Error"]>>

\* C23: the status code of a response is the one sent first and is never
\* replaced; a JSON call that finds the Context written does not send a
\* header, and the Context is written once any response call of the handler
\* has returned.
C23_FirstStatusStays ==
    /\ []((pc["worker"] = "run" /\ ops >= 1) => (Written(c) /\ c.code # 0))
    /\ [][c.code # 0 => c'.code = c.code]_vars
    /\ [][\A p \in Procs :
            (pc[p] = "JSON:check" /\ Written(c)) => pc'[p] # "JSON:header"]_vars

C23_Witness ==
    /\ pc["worker"] = "run"
    /\ ops = 2
    /\ ctxErr = "none"
    /\ c.code = StatusCreated
    /\ c.body = <<[by |-> "handler", data |-> "completed"]>>

\* C24: a probe's goroutine sends one value to its channel of capacity 1
\* and a fan-out goroutine one value to results, whose capacity is the
\* number of checks of the snapshot; every send finds room, so no goroutine
\* blocks on it, and no channel ever holds more than its capacity.
C24_OneSendEach ==
    /\ [](\A i \in DOMAIN dn : Len(dn[i]) <= 1)
    /\ [](Len(results) <= Len(checksCopy))
    /\ [](~crashed =>
            \A i \in DOMAIN probe :
                LET sent == IF probe[i] \in {"finished", "finished late"} THEN 1 ELSE 0
                    taken == IF res[i] # NoResult /\ res[i] # TimedOut(checksCopy[i])
                             THEN 1 ELSE 0
                IN  sent = Len(dn[i]) + taken)
    /\ []((~crashed /\ config.Parallel /\ hpc \in {"collect", "write", "done"}) =>
            Cardinality({i \in DOMAIN rpc : rpc[i] = "sent"}) = idx + Len(results))
    /\ [][\A i \in DOMAIN probe \cap DOMAIN probe' :
            /\ (probe[i] = "running" /\ probe'[i] \in {"finished", "finished late"}) =>
                   (dn[i] = <<>> /\ Len(dn'[i]) = 1)
            /\ (probe[i] \in {"finished", "finished late"} /\ ~crashed') =>
                   (probe'[i] = probe[i] /\ Len(dn'[i]) <= Len(dn[i]))]_vars
    /\ [][\A i \in DOMAIN rpc \cap DOMAIN rpc' :
            /\ (rpc[i] # "sent" /\ rpc'[i] = "sent") =>
                   (Len(results) < Len(checksCopy) /\ results' = Append(results, res[i]))
            /\ (rpc[i] = "sent" /\ ~crashed') => rpc'[i] = "sent"]_vars
    /\ [][Len(results') > Len(results) =>
            Cardinality({i \in DOMAIN rpc : rpc[i] # "sent" /\ rpc'[i] = "sent"}) = 1]_vars

C24_Witness ==
    /\ hpc = "done"
    /\ config.Parallel
    /\ Len(checksCopy) = 2
    /\ idx = 2
    /\ results = <<>>
    /\ \A i \in DOMAIN rpc : rpc[i] = "sent"
    /\ \E i \in DOMAIN res :
          /\ res[i] = TimedOut(checksCopy[i])
          /\ probe[i] = "finished late"
          /\ Len(dn[i]) = 1

\* C25: a context-aware check is reported as timed out only when its context
\* is done (its deadline has passed or the request's context is cancelled),
\* and whatever runCheck returns, the context has been cancelled by the time
\* it returns.  A plain check is timed out by its timer alone and its probe
\* is never signalled: it may return after the timeout was reported, and
\* then neither the check's result nor the report changes.
C25_SignalledByReturn ==
    /\ [][\A i \in DOMAIN rpc \cap DOMAIN rpc' :
            (rpc[i] = "select" /\ rpc'[i] = "returned"
                /\ res'[i] = TimedOut(checksCopy[i])) =>
                IF checksCopy[i].kind = "checkFn"
                THEN timer[i] = 0 \/ ambient
                ELSE timer[i] = 0]_vars
    /\ [](\A i \in DOMAIN rpc :
            (checksCopy[i].kind = "checkFn" /\ rpc[i] \in {"returned", "sent", "folded"})
                => cancelCalled[i])
    /\ [](\A i \in DOMAIN cancelCalled :
            checksCopy[i].kind = "check" => ~cancelCalled[i])
    /\ [][\A i \in DOMAIN rpc \cap DOMAIN rpc' :
            (rpc[i] \in {"returned", "sent", "folded"} /\ ~crashed') =>
                res'[i] = res[i]]_vars
    /\ [][(\E i \in DOMAIN probe \cap DOMAIN probe' :
              /\ rpc[i] \in {"returned", "sent", "folded"}
              /\ probe[i] = "running"
              /\ probe'[i] \in {"finished", "finished late"}) =>
            (c' = c /\ response' = response /\ status' = status /\ results' = results)]_vars
    /\ [][hpc = "done" => c' = c]_vars

C25_Witness ==
    /\ hpc = "done"
    /\ c.code = StatusServiceUnavailable
    /\ \E i, j \in DOMAIN rpc :
          /\ checksCopy[i].kind = "checkFn"
          /\ res[i] = TimedOut(checksCopy[i])
          /\ cancelCalled[i]
          /\ checksCopy[j].kind = "check"
          /\ res[j] = TimedOut(checksCopy[j])
          /\ probe[j] = "running"
          /\ c.body[1].data.checks[checksCopy[j].name] = "FAIL: check timed out"

\* C26: whenever a status line or body bytes have gone to the response
\* writer, the Context is written; stated for a request that is over (the
\* router has served it and the handler's goroutine has returned), so that no
\* response call is between its write and the setting of the flag.
C26_OutputImpliesWritten ==
    (pc["caller"] = "served" /\ pc["worker"] = "returned") =>
        ((c.code # 0 \/ c.body # <<>>) => Written(c))

C28_AppendOnly ==
    /\ [][readiness' # readiness =>
            /\ Len(readiness') = Len(readiness) + 1
            /\ SubSeq(readiness', 1, Len(readiness)) = readiness
            /\ readiness'[Len(readiness')] \in
                   {healthCheck(n, k, t) : n \in Names, k \in {"check", "checkFn"},
                                           t \in OverrideTimeouts}
            /\ liveness' = liveness
            /\ checksCopy' = checksCopy /\ hpc' = hpc /\ rpc' = rpc]_vars
    /\ [][liveness' # liveness =>
            /\ Len(liveness') = Len(liveness) + 1
            /\ SubSeq(liveness', 1, Len(liveness)) = liveness
            /\ liveness'[Len(liveness')] \in
                   {healthCheck(n, k, t) : n \in Names, k \in {"check", "checkFn"},
                                           t \in OverrideTimeouts}
            /\ readiness' = readiness
            /\ checksCopy' = checksCopy /\ hpc' = hpc /\ rpc' = rpc]_vars
    /\ [](mu = "read" => (~ENABLED AddReadinessCheck("db")
                             /\ ~ENABLED AddLivenessCheck("db")))

C28_Witness ==
    /\ hpc = "collect"
    /\ liveness = <<>>
    /\ Len(readiness) = 2
    /\ Len(checksCopy) = 1
    /\ checksCopy[1] = readiness[1]
    /\ readiness[1] = healthCheck("db", "check", 0)
    /\ readiness[2] = healthCheck("cache", "checkFn", 2)
    /\ rpc[1] = "select"

\* C29: an evaluation runs the checks of its snapshot and no others: the
\* snapshot does not change once taken, one runCheck and one probe exist per
\* snapshot check, and the names of the report's checks map are the names
\* of the snapshot's checks, whatever was registered in the meantime.
C29_ReportIsSnapshot ==
    /\ [][hpc # "idle" => checksCopy' = checksCopy]_vars
    /\ [](hpc \notin {"idle", "locked"} =>
            (DOMAIN rpc = DOMAIN checksCopy /\ DOMAIN probe = DOMAIN checksCopy))
    /\ [](hpc = "done" =>
            /\ Len(c.body) = 1
            /\ DOMAIN c.body[1].data.checks =
                   {checksCopy[i].name : i \in DOMAIN checksCopy})

C29_Witness ==
    /\ hpc = "done"
    /\ liveness = <<>>
    /\ Len(readiness) = 2
    /\ Len(checksCopy) = 1
    /\ checksCopy[1] = readiness[1]
    /\ readiness[2].name # readiness[1].name
    /\ DOMAIN c.body[1].data.checks = {readiness[1].name}

\* C30: a check registered through a WithTimeout method with a timeout of
\* zero or less is evaluated with the global CheckTimeout, as a check that
\* was registered without an override is: its deadline is armed with
\* CheckTimeout, and it can be reported as timed out only when that deadline
\* has passed (or the request's context is cancelled).
C30_NonPositiveOverrideIgnored ==
    /\ [](\A n \in Names, t \in OverrideTimeouts :
            t <= 0 => Timeout(healthCheck(n, "checkFn", t))
                          = Timeout(healthCheck(n, "checkFn", 0)))
    /\ [][\A i \in DOMAIN timer \cap DOMAIN timer' :
            (checksCopy[i].kind = "checkFn" /\ checksCopy[i].timeout <= 0
                /\ timer[i] = -1 /\ timer'[i] # -1) =>
                timer'[i] = config.CheckTimeout]_vars
    /\ [](\A i \in DOMAIN timer :
            (checksCopy[i].timeout <= 0 /\ timer[i] # -1) =>
                timer[i] \in 0..config.CheckTimeout)

C30_Witness ==
    /\ hpc = "seq"
    /\ config.CheckTimeout = 1
    /\ \E i \in DOMAIN checksCopy :
          /\ checksCopy[i] = healthCheck("db", "checkFn", -1)
          /\ rpc[i] = "select"
          /\ probe[i] = "running"
          /\ timer[i] = config.CheckTimeout

=============================================================================
